---- MODULE Spec2Model ----
(***************************************************************************)
(* Model of src/mcpp.py: the MCP tool endpoint POST /mcp/tools/{tool_name} *)
(* (execute_tool) and its four handlers over the SQLite table              *)
(* `appointments` created by init_db.                                      *)
(*                                                                         *)
(* Spec     : the server as started by uvicorn.run (one process, one event *)
(*            loop).  Every handler is an `async def` without an await     *)
(*            inside, so a call runs from connect to close without         *)
(*            interleaving: one action per call.                           *)
(* SpecConc : several book_appointment calls, each on its own connection   *)
(*            to wellness.db, interleaved statement by statement (several  *)
(*            server processes on one database file).                      *)
(***************************************************************************)
EXTENDS Integers, Sequences, FiniteSets, TLC

\* ---------------------------------------------------------------- bounds
MaxBookings == 2      \* successful book_appointment calls per behaviour
NumCallers == 3       \* concurrent book_appointment calls in SpecConc

\* --------------------------------------------------------- Python values
\* A Python str is Str(s); text that the code parses (the time of day) is a
\* tuple of one-character strings, other text is an opaque TLA+ string.
None == [t |-> "NoneType"]
Str(s) == [t |-> "str", v |-> s]
IsStr(x) == x.t = "str"

Min(S) == CHOOSE x \in S : \A y \in S : x <= y
Max(S) == CHOOSE x \in S : \A y \in S : x >= y

\* dict.get(key) with the default None
Get(params, key) == IF key \in DOMAIN params THEN params[key] ELSE None
\* dict.get(key, default)
GetOr(params, key, default) == IF key \in DOMAIN params THEN params[key] ELSE default

\* ---------------------------------------------------- text conversions
Digits == <<"0", "1", "2", "3", "4", "5", "6", "7", "8", "9">>
IsDigit(c) == \E i \in DOMAIN Digits : Digits[i] = c
DigitVal(c) == (CHOOSE i \in DOMAIN Digits : Digits[i] = c) - 1

\* s.split(':')[0]: the text before the first colon, all of s when it has none
SplitColonFirst(s) ==
    LET colons == {i \in DOMAIN s : s[i] = ":"}
    IN  IF colons = {} THEN s ELSE SubSeq(s, 1, Min(colons) - 1)

RECURSIVE DigitsValue(_)
DigitsValue(s) ==
    IF s = <<>> THEN 0
    ELSE 10 * DigitsValue(SubSeq(s, 1, Len(s) - 1)) + DigitVal(s[Len(s)])

\* int(s) on the texts the model passes it: an optional sign then one or more
\* decimal digits parse, anything else raises ValueError (ok = FALSE)
IntParse(s) ==
    LET signed == s # <<>> /\ s[1] \in {"-", "+"}
        body == IF signed THEN Tail(s) ELSE s
    IN  IF body # <<>> /\ \A i \in DOMAIN body : IsDigit(body[i])
        THEN [ok |-> TRUE,
              val |-> IF signed /\ s[1] = "-" THEN 0 - DigitsValue(body)
                      ELSE DigitsValue(body)]
        ELSE [ok |-> FALSE, val |-> 0]

RECURSIVE NatDigits(_)
NatDigits(n) ==
    IF n < 10 THEN <<Digits[n + 1]>>
    ELSE Append(NatDigits(n \div 10), Digits[(n % 10) + 1])

\* str(n) as formatted by an f-string "{n}"
FormatInt(n) == IF n < 0 THEN <<"-">> \o NatDigits(0 - n) ELSE NatDigits(n)

RECURSIVE ZeroPad(_, _)
ZeroPad(s, width) == IF Len(s) >= width THEN s ELSE ZeroPad(<<"0">> \o s, width)

\* f"{n:04d}" for n >= 0
Format04d(n) == ZeroPad(FormatInt(n), 4)

\* --------------------------------------------------------- HTTP outcomes
\* What the endpoint gives back: the handler's return value (200), or the
\* exception that left execute_tool (HTTPException keeps its status, any other
\* exception is the framework's 500).
Return(body) == [raised |-> "", status |-> 200, body |-> body]
RaiseHTTP(status, detail) ==
    [raised |-> "HTTPException", status |-> status, body |-> [detail |-> detail]]
RaiseUnhandled(exc) ==
    [raised |-> exc, status |-> 500, body |-> [detail |-> "Internal Server Error"]]
NoResponse == [raised |-> "", status |-> 0, body |-> [detail |-> ""]]

\* ------------------------------------------------- the appointments table
\* A row is a record of the columns of CREATE TABLE appointments (created_at, a
\* clock value no handler reads, is left out).  seq is the table's entry in
\* sqlite_sequence: the largest rowid ever assigned.
RequiredColumns ==
    <<"patient_name", "phone_number", "appointment_date",
      "appointment_time", "appointment_type", "provider">>

RowIds(rows) == {r.id : r \in rows}

\* (Fault variant: the rowid of a plain INTEGER PRIMARY KEY, one more than the
\* largest rowid now in the table, which gives a freed id out again.)
NextRowidReusingFreed(rows, seq) == Max(RowIds(rows) \cup {0}) + 1
\* The rowid INTEGER PRIMARY KEY AUTOINCREMENT gives a new row: one more than
\* the largest rowid the table ever held.
NextRowid(rows, seq) == Max(RowIds(rows) \cup {seq}) + 1

\* --------------------------------------------------------- book_appointment
\* The parameter tuple of the INSERT: params[...] raises KeyError at the first
\* key that is missing, params.get("notes", "") never raises.
BookArguments(params) ==
    LET missing == {i \in DOMAIN RequiredColumns : RequiredColumns[i] \notin DOMAIN params}
    IN  IF missing # {}
        THEN [exc |-> "KeyError", arg |-> RequiredColumns[Min(missing)], values |-> <<>>]
        ELSE [exc |-> "", arg |-> "",
              values |-> [patient_name |-> params["patient_name"],
                          phone_number |-> params["phone_number"],
                          appointment_date |-> params["appointment_date"],
                          appointment_time |-> params["appointment_time"],
                          appointment_type |-> params["appointment_type"],
                          provider |-> params["provider"],
                          notes |-> GetOr(params, "notes", Str(""))]]

\* INSERT INTO appointments: the NOT NULL columns reject None (IntegrityError);
\* nothing else is checked, and the row gets the next rowid.
Insert(rows, seq, values) ==
    LET nulls == {i \in DOMAIN RequiredColumns : values[RequiredColumns[i]] = None}
    IN  IF nulls # {}
        THEN [exc |-> "IntegrityError", arg |-> RequiredColumns[Min(nulls)], row |-> <<>>]
        ELSE [exc |-> "", arg |-> "",
              row |-> [id |-> NextRowid(rows, seq),
                       patient_name |-> values.patient_name,
                       phone_number |-> values.phone_number,
                       appointment_date |-> values.appointment_date,
                       appointment_time |-> values.appointment_time,
                       appointment_type |-> values.appointment_type,
                       provider |-> values.provider,
                       notes |-> values.notes]]

BookSuccess(params, appointment_id) ==
    Return([success |-> TRUE,
            appointment_id |-> appointment_id,
            message |-> [text |-> "Appointment confirmed for",
                         patient_name |-> params["patient_name"],
                         provider |-> params["provider"],
                         appointment_date |-> params["appointment_date"],
                         appointment_time |-> params["appointment_time"],
                         appointment_type |-> params["appointment_type"]],
            confirmation_number |-> <<"A", "P", "T">> \o Format04d(appointment_id)])

\* except Exception as e: the exception becomes a failed result
BookFailure(exc, arg) ==
    Return([success |-> FALSE,
            message |-> [text |-> "Failed to book appointment: ", exc |-> exc, arg |-> arg]])

\* One whole call: connect, INSERT, commit, close.
book_appointment(rows, seq, params) ==
    LET args == BookArguments(params)
    IN  IF args.exc # ""
        THEN [rows |-> rows, seq |-> seq, response |-> BookFailure(args.exc, args.arg)]
        ELSE LET ins == Insert(rows, seq, args.values)
             IN  IF ins.exc # ""
                 THEN [rows |-> rows, seq |-> seq,
                       response |-> BookFailure(ins.exc, ins.arg)]
                 ELSE [rows |-> rows \cup {ins.row}, seq |-> ins.row.id,
                       response |-> BookSuccess(params, ins.row.id)]

\* ------------------------------------------------------- check_availability
\* Reads no table: the answer is computed from the parameters alone.
check_availability(params) ==
    LET date == Get(params, "date")
        time == Get(params, "time")
        provider == Get(params, "provider")
        appointment_type == Get(params, "appointment_type")
    IN  IF ~IsStr(time) THEN RaiseUnhandled("AttributeError")
        ELSE LET hour == IntParse(SplitColonFirst(time.v))
             IN  IF ~hour.ok THEN RaiseUnhandled("ValueError")
                 ELSE Return([available |-> TRUE,
                              message |-> [text |-> "Appointment is available",
                                           provider |-> provider,
                                           appointment_type |-> appointment_type,
                                           date |-> date],
                              available_slots |->
                                  <<time.v,
                                    FormatInt(hour.val + 1) \o <<":", "0", "0">>,
                                    FormatInt(hour.val - 1) \o <<":", "0", "0">>>>,
                              provider |-> provider,
                              appointment_type |-> appointment_type])

\* ------------------------------------------------------------- get_services
get_services ==
    Return([services |->
                <<[type |-> "Primary Care",
                   providers |-> <<"Dr. Smith", "Dr. Johnson", "Dr. Garcia">>],
                  [type |-> "Dermatology", providers |-> <<"Dr. Brown", "Dr. Davis">>],
                  [type |-> "Physical Therapy", providers |-> <<"Dr. Wilson", "Dr. Miller">>],
                  [type |-> "Mental Health", providers |-> <<"Dr. Taylor", "Dr. Anderson">>]>>])

\* ------------------------------------------------------- cancel_appointment
CancelColumns == <<"patient_name", "phone_number", "appointment_date">>

\* SQL `column = ?` under the default BINARY collation: exact text equality,
\* never true for NULL.
SqlEq(a, b) == a # None /\ b # None /\ a = b

\* (Fault variant: a WHERE clause that leaves the phone number out.)
DeletedRowsByNameAndDate(rows, patient_name, phone_number, appointment_date) ==
    {r \in rows : /\ SqlEq(r.patient_name, patient_name)
                  /\ SqlEq(r.appointment_date, appointment_date)}
\* The rows DELETE ... WHERE patient_name = ? AND phone_number = ? AND
\* appointment_date = ? removes.
DeletedRows(rows, patient_name, phone_number, appointment_date) ==
    {r \in rows : /\ SqlEq(r.patient_name, patient_name)
                  /\ SqlEq(r.phone_number, phone_number)
                  /\ SqlEq(r.appointment_date, appointment_date)}

CancelFailure(exc, arg) ==
    Return([success |-> FALSE,
            message |-> [text |-> "Failed to cancel appointment: ", exc |-> exc, arg |-> arg]])

\* (Fault variant: success reported without looking at cursor.rowcount.)
CancelResultLenient(params, rowcount) ==
    Return([success |-> TRUE,
            message |-> [text |-> "Appointment has been cancelled",
                         patient_name |-> params["patient_name"],
                         appointment_date |-> params["appointment_date"]]])
\* The result the handler builds from cursor.rowcount
CancelResult(params, rowcount) ==
    IF rowcount > 0
    THEN Return([success |-> TRUE,
                 message |-> [text |-> "Appointment has been cancelled",
                              patient_name |-> params["patient_name"],
                              appointment_date |-> params["appointment_date"]]])
    ELSE Return([success |-> FALSE,
                 message |-> [text |-> "No appointment found matching those details"]])

\* One whole call: connect, DELETE, commit, close.
cancel_appointment(rows, seq, params) ==
    LET missing == {i \in DOMAIN CancelColumns : CancelColumns[i] \notin DOMAIN params}
    IN  IF missing # {}
        THEN [rows |-> rows, seq |-> seq,
              response |-> CancelFailure("KeyError", CancelColumns[Min(missing)])]
        ELSE LET deleted == DeletedRows(rows, params["patient_name"],
                                        params["phone_number"], params["appointment_date"])
             IN  [rows |-> rows \ deleted, seq |-> seq,
                  response |-> CancelResult(params, Cardinality(deleted))]

\* ------------------------------------------------------------- execute_tool
\* (Fault variant: names matched without regard to case.)
RouteIgnoringCase(tool_name) ==
    IF tool_name \in {"check_availability", "Check_Availability"} THEN "check_availability"
    ELSE IF tool_name \in {"book_appointment", "Book_Appointment"} THEN "book_appointment"
    ELSE IF tool_name \in {"get_services", "Get_Services"} THEN "get_services"
    ELSE IF tool_name \in {"cancel_appointment", "Cancel_Appointment"} THEN "cancel_appointment"
    ELSE ""
\* The if/elif chain: the handler a tool name selects, "" for the else branch.
Route(tool_name) ==
    IF tool_name = "check_availability" THEN "check_availability"
    ELSE IF tool_name = "book_appointment" THEN "book_appointment"
    ELSE IF tool_name = "get_services" THEN "get_services"
    ELSE IF tool_name = "cancel_appointment" THEN "cancel_appointment"
    ELSE ""

\* What a call does to the table and what it gives back.
Execute(rows, seq, tool_name, parameters) ==
    LET handler == Route(tool_name)
    IN  CASE handler = "check_availability" ->
                [rows |-> rows, seq |-> seq, response |-> check_availability(parameters)]
          [] handler = "book_appointment" -> book_appointment(rows, seq, parameters)
          [] handler = "get_services" ->
                [rows |-> rows, seq |-> seq, response |-> get_services]
          [] handler = "cancel_appointment" -> cancel_appointment(rows, seq, parameters)
          [] OTHER ->
                [rows |-> rows, seq |-> seq, response |-> RaiseHTTP(404, "Tool not found")]

\* ------------------------------------------------------------------ inputs
\* The argument maps callers send.  A map is a function from the keys that are
\* present to their values.
Names == {"Jane Doe", "jane doe"}
Phones == {"+15551234567", "+15557654321"}
Dates == {"2025-03-10", "2025-03-11"}
Providers == {"Dr. Smith", "Dr. Brown"}
Types == {"Primary Care"}
Midnight == <<"0", "0", ":", "0", "0">>
Afternoon == <<"1", "4", ":", "0", "0">>
LastHour == <<"2", "3", ":", "0", "0">>
Times == {Midnight, Afternoon, LastHour}
BookTimes == {Afternoon, LastHour}
NotATime == <<"n", "o", "o", "n">>

EmptyParams == [k \in {} |-> None]
Drop(params, key) == [k \in DOMAIN params \ {key} |-> params[k]]
\* The empty Python string in the representation the column's text has.
EmptyText(column) == IF column \in {"appointment_time", "time"} THEN Str(<<>>) ELSE Str("")
\* The maps of S that differ from `base` in at most one value.
Near(S, base) == {x \in S : Cardinality({k \in DOMAIN base : x[k] # base[k]}) <= 1}

BookParams(n, p, d, t, ty, pr) ==
    [patient_name |-> Str(n), phone_number |-> Str(p), appointment_date |-> Str(d),
     appointment_time |-> Str(t), appointment_type |-> Str(ty), provider |-> Str(pr)]
CanonicalBook ==
    BookParams("Jane Doe", "+15551234567", "2025-03-10", Afternoon, "Primary Care", "Dr. Smith")
\* Well-formed requests: the canonical one and those one field away from it.
ValidBookInputs ==
    Near({BookParams(n, p, d, t, ty, pr) :
            n \in Names, p \in Phones, d \in Dates, t \in BookTimes, ty \in Types,
            pr \in Providers},
         CanonicalBook)
\* The canonical request with one required field absent (any of the six), or
\* with one of three of them empty or null: a field that names the patient, the
\* parsed time, and the last column.
SpoiledColumns == {"patient_name", "appointment_time", "provider"}
MalformedBookInputs ==
    {Drop(CanonicalBook, RequiredColumns[i]) : i \in DOMAIN RequiredColumns}
    \cup {[CanonicalBook EXCEPT ![k] = EmptyText(k)] : k \in SpoiledColumns}
    \cup {[CanonicalBook EXCEPT ![k] = None] : k \in SpoiledColumns}
BookInputs == ValidBookInputs \cup MalformedBookInputs

CheckParams(d, t, pr, ty) ==
    [date |-> Str(d), time |-> Str(t), provider |-> Str(pr), appointment_type |-> Str(ty)]
CanonicalCheck == CheckParams("2025-03-10", Afternoon, "Dr. Smith", "Primary Care")
CheckInputs ==
    Near({CheckParams(d, t, pr, ty) :
            d \in Dates, t \in Times \cup {NotATime}, pr \in Providers, ty \in Types},
         CanonicalCheck)
    \cup {Drop(CanonicalCheck, "time"), Drop(CanonicalCheck, "date"), EmptyParams}

CancelParams(n, p, d) ==
    [patient_name |-> Str(n), phone_number |-> Str(p), appointment_date |-> Str(d)]
CanonicalCancel == CancelParams("Jane Doe", "+15551234567", "2025-03-10")
CancelInputs ==
    Near({CancelParams(n, p, d) : n \in Names, p \in Phones, d \in Dates}, CanonicalCancel)
    \cup {Drop(CanonicalCancel, CancelColumns[i]) : i \in DOMAIN CancelColumns}
    \cup {[CanonicalCancel EXCEPT !["patient_name"] = None]}

RegisteredTools ==
    {"check_availability", "book_appointment", "get_services", "cancel_appointment"}
UnknownToolNames == {"Book_Appointment", "unknown_tool"}
UnknownToolInputs == {EmptyParams, CanonicalBook}

\* ------------------------------------------------------------------- state
VARIABLES
    appointments,      \* the committed rows of table appointments
    sqlite_sequence,   \* AUTOINCREMENT's high-water mark for the table
    lastCall,          \* the latest execute_tool call and what it gave back
    previous,          \* the response of the call before it, when that call had
                       \* the same tool name and arguments (NoResponse otherwise)
    issued,            \* the appointment_id of every successful booking, in order
    pc,                \* SpecConc: where each concurrent book_appointment call is
    request,           \* SpecConc: its argument map
    pending,           \* SpecConc: the row its open transaction has inserted
    writer,            \* SpecConc: the call holding the database write lock, 0 if none
    startRows,         \* SpecConc: the committed rows when each call began
    result             \* SpecConc: what each finished call returned

vars == <<appointments, sqlite_sequence, lastCall, previous, issued,
          pc, request, pending, writer, startRows, result>>
seqVars == <<lastCall, previous>>
concVars == <<pc, request, pending, writer, startRows, result>>

Callers == 1..NumCallers
NoRow == [id |-> 0]

\* init_db on a fresh wellness.db: the table exists and is empty.
Init ==
    /\ appointments = {}
    /\ sqlite_sequence = 0
    /\ lastCall = [tool_name |-> "", parameters |-> EmptyParams, handler |-> "",
                   response |-> NoResponse]
    /\ previous = NoResponse
    /\ issued = <<>>
    /\ pc = [c \in Callers |-> "idle"]
    /\ request = [c \in Callers |-> EmptyParams]
    /\ pending = [c \in Callers |-> NoRow]
    /\ writer = 0
    /\ startRows = [c \in Callers |-> {}]
    /\ result = [c \in Callers |-> NoResponse]

Booked(response) ==
    /\ response.raised = ""
    /\ "appointment_id" \in DOMAIN response.body
    /\ response.body.success

\* ------------------------------------------------- Spec: one call at a time
\* POST /mcp/tools/{tool_name} with body `parameters`, start to finish.
ExecuteTool(tool_name, parameters) ==
    LET out == Execute(appointments, sqlite_sequence, tool_name, parameters)
    IN  /\ appointments' = out.rows
        /\ sqlite_sequence' = out.seq
        /\ lastCall' = [tool_name |-> tool_name, parameters |-> parameters,
                        handler |-> Route(tool_name), response |-> out.response]
        /\ previous' = IF lastCall.tool_name = tool_name /\ lastCall.parameters = parameters
                       THEN lastCall.response ELSE NoResponse
        /\ issued' = IF Route(tool_name) = "book_appointment" /\ Booked(out.response)
                     THEN Append(issued, out.response.body.appointment_id)
                     ELSE issued

CheckAvailabilityCall ==
    /\ \E p \in CheckInputs : ExecuteTool("check_availability", p)
    /\ UNCHANGED concVars
\* The bound stops the behaviour after MaxBookings successful bookings; calls
\* that fail are never cut off.
BookAppointmentCall ==
    /\ \E p \in BookInputs : ExecuteTool("book_appointment", p)
    /\ Len(issued') <= MaxBookings
    /\ UNCHANGED concVars
GetServicesCall ==
    /\ ExecuteTool("get_services", EmptyParams)
    /\ UNCHANGED concVars
CancelAppointmentCall ==
    /\ \E p \in CancelInputs : ExecuteTool("cancel_appointment", p)
    /\ UNCHANGED concVars
\* A name the if/elif chain does not know.
UnknownToolCall ==
    /\ \E name \in UnknownToolNames, p \in UnknownToolInputs : ExecuteTool(name, p)
    /\ UNCHANGED concVars

Next ==
    \/ CheckAvailabilityCall
    \/ BookAppointmentCall
    \/ GetServicesCall
    \/ CancelAppointmentCall
    \/ UnknownToolCall

Spec == Init /\ [][Next]_vars

\* ------------------------------- SpecConc: concurrent book_appointment calls
\* Each caller runs book_appointment on a connection of its own.  SQLite lets
\* one connection write at a time: the INSERT opens the transaction and takes
\* the write lock, commit() publishes the row and gives the lock back.  A
\* connection that finds the lock taken waits; when the wait outlasts the
\* connection's timeout the INSERT raises OperationalError, which the handler
\* turns into a failed result like any other exception.
ConcInputs ==
    {CanonicalBook,
     [CanonicalBook EXCEPT !["patient_name"] = Str("jane doe")],
     [CanonicalBook EXCEPT !["appointment_time"] = Str(LastHour)],
     Drop(CanonicalBook, "patient_name"),
     [CanonicalBook EXCEPT !["provider"] = None]}

\* sqlite3.connect and conn.cursor()
Connect(c) ==
    /\ pc[c] = "idle"
    /\ \E p \in ConcInputs : request' = [request EXCEPT ![c] = p]
    /\ pc' = [pc EXCEPT ![c] = "execute"]
    /\ startRows' = [startRows EXCEPT ![c] = appointments]
    /\ UNCHANGED <<appointments, sqlite_sequence, issued, pending, writer, result>>
    /\ UNCHANGED seqVars

\* The parameter tuple cannot be built, or the row breaks NOT NULL: the except
\* branch returns the failure and finally closes the connection.
ExecuteFails(c) ==
    /\ pc[c] = "execute"
    /\ LET args == BookArguments(request[c])
       IN  \/ /\ args.exc # ""
              /\ result' = [result EXCEPT ![c] = BookFailure(args.exc, args.arg)]
           \/ /\ args.exc = ""
              /\ writer = 0
              /\ LET ins == Insert(appointments, sqlite_sequence, args.values)
                 IN  /\ ins.exc # ""
                     /\ result' = [result EXCEPT ![c] = BookFailure(ins.exc, ins.arg)]
    /\ pc' = [pc EXCEPT ![c] = "done"]
    /\ UNCHANGED <<appointments, sqlite_sequence, issued, request, pending, writer, startRows>>
    /\ UNCHANGED seqVars

\* cursor.execute(INSERT ...) and cursor.lastrowid, with the write lock free
ExecuteInsert(c) ==
    /\ pc[c] = "execute"
    /\ writer = 0
    /\ LET args == BookArguments(request[c])
       IN  /\ args.exc = ""
           /\ LET ins == Insert(appointments, sqlite_sequence, args.values)
              IN  /\ ins.exc = ""
                  /\ pending' = [pending EXCEPT ![c] = ins.row]
    /\ writer' = c
    /\ pc' = [pc EXCEPT ![c] = "commit"]
    /\ UNCHANGED <<appointments, sqlite_sequence, issued, request, startRows, result>>
    /\ UNCHANGED seqVars

\* cursor.execute(INSERT ...) while another connection holds the write lock
\* for longer than the timeout
ExecuteLocked(c) ==
    /\ pc[c] = "execute"
    /\ writer \notin {0, c}
    /\ BookArguments(request[c]).exc = ""
    /\ result' = [result EXCEPT
                    ![c] = BookFailure("OperationalError", "database is locked")]
    /\ pc' = [pc EXCEPT ![c] = "done"]
    /\ UNCHANGED <<appointments, sqlite_sequence, issued, request, pending, writer, startRows>>
    /\ UNCHANGED seqVars

\* conn.commit(), the success result, and finally conn.close()
Commit(c) ==
    /\ pc[c] = "commit"
    /\ appointments' = appointments \cup {pending[c]}
    /\ sqlite_sequence' = pending[c].id
    /\ issued' = Append(issued, pending[c].id)
    /\ writer' = 0
    /\ result' = [result EXCEPT ![c] = BookSuccess(request[c], pending[c].id)]
    /\ pc' = [pc EXCEPT ![c] = "done"]
    /\ UNCHANGED <<request, pending, startRows>>
    /\ UNCHANGED seqVars

NextConc ==
    \E c \in Callers :
        \/ Connect(c)
        \/ ExecuteFails(c)
        \/ ExecuteInsert(c)
        \/ ExecuteLocked(c)
        \/ Commit(c)

SpecConc == Init /\ [][NextConc]_vars

\* ============================================================== properties
\* The parameters each tool declares as required (get_tools).
Required(tool) ==
    CASE tool = "check_availability" -> {"date", "time", "provider", "appointment_type"}
      [] tool = "book_appointment" ->
            {"patient_name", "phone_number", "appointment_date", "appointment_time",
             "appointment_type", "provider"}
      [] tool = "cancel_appointment" -> {"patient_name", "phone_number", "appointment_date"}
      [] OTHER -> {}

AllGiven(tool, params) ==
    \A k \in Required(tool) : k \in DOMAIN params /\ IsStr(params[k])

SameSlot(r1, r2) ==
    /\ r1.provider = r2.provider
    /\ r1.appointment_date = r2.appointment_date
    /\ r1.appointment_time = r2.appointment_time

\* The stored rows at the slot a book_appointment request names.
RowsAtSlot(rows, params) ==
    {r \in rows : /\ r.provider = params["provider"]
                  /\ r.appointment_date = params["appointment_date"]
                  /\ r.appointment_time = params["appointment_time"]}

\* The stored rows a cancel_appointment request names.
RowsOfPatient(rows, params) ==
    {r \in rows : /\ r.patient_name = params["patient_name"]
                  /\ r.phone_number = params["phone_number"]
                  /\ r.appointment_date = params["appointment_date"]}

Succeeded(response) ==
    response.raised = "" /\ "success" \in DOMAIN response.body /\ response.body.success

StructuredFailure(response) ==
    /\ response.raised = ""
    /\ "success" \in DOMAIN response.body
    /\ ~response.body.success
    /\ "message" \in DOMAIN response.body

\* C1: the table never holds two rows for one (provider, appointment_date,
\* appointment_time) slot.
C1_AtMostOneRowPerSlot ==
    \A r1, r2 \in appointments : SameSlot(r1, r2) => r1 = r2

\* The call was refused by the database lock, not by the handler.
LockedOut(response) ==
    ~Succeeded(response) /\ response.body.message.exc = "OperationalError"

\* C2: when concurrent book_appointment calls have all finished, of two or more
\* well-formed calls for one slot, each begun while no row was stored for it
\* and none refused by the database lock, exactly one succeeded and the slot
\* holds exactly one row.
C2_ExactlyOneCallerWins ==
    (\A c \in Callers : pc[c] = "done") =>
        \A c \in Callers :
            LET rivals == {d \in Callers :
                            /\ AllGiven("book_appointment", request[d])
                            /\ AllGiven("book_appointment", request[c])
                            /\ RowsAtSlot({request[d]}, request[c]) # {}}
            IN  (/\ Cardinality(rivals) >= 2
                 /\ \A d \in rivals : RowsAtSlot(startRows[d], request[c]) = {}
                 /\ \A d \in rivals : ~LockedOut(result[d])) =>
                    /\ Cardinality({d \in rivals : Succeeded(result[d])}) = 1
                    /\ Cardinality(RowsAtSlot(appointments, request[c])) = 1

\* C3: check_availability answers available = true exactly when no stored row
\* has the requested (provider, date, time).
C3_AvailableIffSlotFree ==
    (lastCall.handler = "check_availability" /\ lastCall.response.raised = "") =>
        (lastCall.response.body.available <=>
            ~\E r \in appointments :
                /\ r.provider = Get(lastCall.parameters, "provider")
                /\ r.appointment_date = Get(lastCall.parameters, "date")
                /\ r.appointment_time = Get(lastCall.parameters, "time"))

\* C4: a cancel_appointment call that finds exactly one matching row removes it
\* and reports success; the same call made again right after a successful one
\* returns the "nothing to cancel" result (success false, no exception) and
\* leaves the table as it was.
C4_CancelIsIdempotent ==
    [][(lastCall'.handler = "cancel_appointment"
            /\ AllGiven("cancel_appointment", lastCall'.parameters)) =>
        /\ Cardinality(RowsOfPatient(appointments, lastCall'.parameters)) = 1 =>
              /\ Succeeded(lastCall'.response)
              /\ Cardinality(appointments') = Cardinality(appointments) - 1
              /\ RowsOfPatient(appointments', lastCall'.parameters) = {}
        /\ (/\ lastCall.handler = "cancel_appointment"
            /\ lastCall.parameters = lastCall'.parameters
            /\ Succeeded(lastCall.response)) =>
              /\ StructuredFailure(lastCall'.response)
              /\ lastCall'.response.body.message.text
                    = "No appointment found matching those details"
              /\ appointments' = appointments
              /\ sqlite_sequence' = sqlite_sequence
      ]_vars

\* A cancel that removed the only booking ever made, repeated at once: the
\* repeat found nothing to cancel.
C4_Witness ==
    /\ lastCall.handler = "cancel_appointment"
    /\ Succeeded(previous)
    /\ StructuredFailure(lastCall.response)
    /\ issued = <<1>>
    /\ appointments = {}

\* C5: every successful booking returns an appointment_id greater than that of
\* every earlier successful booking, whatever was cancelled in between.
C5_IdsStrictlyIncrease ==
    \A i, j \in DOMAIN issued : i < j => issued[i] < issued[j]

\* The second booking has just succeeded on a table that a cancel had emptied:
\* the freed id 1 was the highest and was not given out again.
C5_Witness ==
    /\ Len(issued) = 2
    /\ lastCall.handler = "book_appointment"
    /\ Booked(lastCall.response)
    /\ Cardinality(appointments) = 1

\* C6: a book_appointment request with a required field absent or empty gets a
\* failed result, and no stored row has an empty required field.
C6_RequiredFieldsNonEmpty ==
    /\ (/\ lastCall.handler = "book_appointment"
        /\ \E k \in Required("book_appointment") :
              \/ k \notin DOMAIN lastCall.parameters
              \/ lastCall.parameters[k] = EmptyText(k))
          => StructuredFailure(lastCall.response)
    /\ \A r \in appointments : \A k \in Required("book_appointment") : r[k] # EmptyText(k)

\* A time of day written HH:MM, 00:00 to 23:59.
WellFormedTime(time) ==
    /\ IsStr(time)
    /\ Len(time.v) = 5
    /\ time.v[3] = ":"
    /\ \A i \in {1, 2, 4, 5} : IsDigit(time.v[i])
    /\ DigitsValue(SubSeq(time.v, 1, 2)) \in 0..23
    /\ DigitsValue(SubSeq(time.v, 4, 5)) \in 0..59

\* C7: for a well-formed HH:MM time check_availability returns (does not raise)
\* the requested time followed by at most two suggestions, each at an hour
\* within 0..23.
C7_SuggestionsWithinDay ==
    (/\ lastCall.handler = "check_availability"
     /\ WellFormedTime(Get(lastCall.parameters, "time"))) =>
        /\ lastCall.response.raised = ""
        /\ LET slots == lastCall.response.body.available_slots
           IN  /\ Len(slots) \in 1..3
               /\ slots[1] = lastCall.parameters["time"].v
               /\ \A i \in 2..Len(slots) :
                    LET hour == IntParse(SplitColonFirst(slots[i]))
                    IN  hour.ok /\ hour.val \in 0..23

\* C8: a call whose tool name is not exactly one of the four registered names
\* fails with HTTP 404, reaches no handler and changes nothing in the table.
C8_UnknownToolNotFound ==
    [][lastCall'.tool_name \notin RegisteredTools =>
        /\ lastCall'.response = RaiseHTTP(404, "Tool not found")
        /\ lastCall'.handler = ""
        /\ appointments' = appointments
        /\ sqlite_sequence' = sqlite_sequence
      ]_vars

\* A full booking request sent under the name Book_Appointment was answered
\* 404 while the table already held a row.
C8_Witness ==
    /\ lastCall.tool_name = "Book_Appointment"
    /\ lastCall.parameters = CanonicalBook
    /\ lastCall.response.status = 404
    /\ appointments # {}

\* C9: a call to a registered tool that omits a required parameter, books a
\* taken slot or cancels an appointment that does not exist returns a
\* structured failure (success false with a message); no exception escapes.
C9_FailuresAreStructured ==
    [][(LET tool == lastCall'.handler
            params == lastCall'.parameters
        IN  /\ tool \in RegisteredTools
            /\ \/ \E k \in Required(tool) : k \notin DOMAIN params
               \/ /\ tool = "book_appointment"
                  /\ AllGiven(tool, params)
                  /\ RowsAtSlot(appointments, params) # {}
               \/ /\ tool = "cancel_appointment"
                  /\ AllGiven(tool, params)
                  /\ RowsOfPatient(appointments, params) = {})
        => StructuredFailure(lastCall'.response)
      ]_vars

\* C10: cancel_appointment removes exactly the rows whose patient_name,
\* phone_number and appointment_date equal its arguments, keeps every other
\* row, and reports success exactly when it removed a row.
C10_CancelRemovesExactlyMatches ==
    [][(lastCall'.handler = "cancel_appointment"
            /\ AllGiven("cancel_appointment", lastCall'.parameters)) =>
        /\ lastCall'.response.raised = ""
        /\ appointments' \subseteq appointments
        /\ \A r \in appointments :
              r \in appointments' <=> r \notin RowsOfPatient({r}, lastCall'.parameters)
        /\ lastCall'.response.body.success <=> appointments' # appointments
        /\ sqlite_sequence' = sqlite_sequence
      ]_vars

\* A cancel removed the second booking and kept the first, which differs from
\* the cancel's arguments in the phone number alone.
C10_Witness ==
    /\ lastCall.handler = "cancel_appointment"
    /\ Succeeded(lastCall.response)
    /\ issued = <<1, 2>>
    /\ \E r \in appointments :
          /\ r.id = 1
          /\ r.patient_name = lastCall.parameters["patient_name"]
          /\ r.appointment_date = lastCall.parameters["appointment_date"]
          /\ r.phone_number # lastCall.parameters["phone_number"]

====
